---- MODULE Spec2Model ----
(***************************************************************************)
(* Crypto_Backtester: the bar-by-bar simulation of BacktestingEngine       *)
(* (src/backtester/backtesting_engine.py).                                 *)
(*                                                                         *)
(* Numbers.  The engine computes in IEEE-754 doubles.  A value is modelled *)
(* as a fraction [n, d] in lowest terms: d > 0 is the finite number n/d,   *)
(* [1,0] is +inf, [-1,0] is -inf and [0,0] is NaN.  Finite arithmetic is   *)
(* exact (rounding is abstracted away); division by zero, inf and NaN      *)
(* follow IEEE-754 as numpy.float64 does (x/0 = inf, 0/0 = inf*0 =         *)
(* inf-inf = NaN, every ordered comparison with NaN is false).  Signed     *)
(* zeros are not distinguished.                                            *)
(*                                                                         *)
(* Time.  The data feed is a sequence of bars; row t of the DataFrames is  *)
(* position t of the sequences here (the source counts from 0, the         *)
(* sequences from 1) and a trade's Timestamp is its bar's position.  The   *)
(* loop of run_backtest reads row i only in iteration i, so the feed is    *)
(* revealed one bar per step.                                              *)
(***************************************************************************)
EXTENDS Integers, Sequences, FiniteSets, TLC

VARIABLES
    initial_capital,    \* self.initial_capital
    commission_rate,    \* self.commission_rate
    columns,            \* columns of the frame returned by strategy.generate_signals()
    data,               \* rows of data_with_signals read so far: [close, final_signal]
    portfolio_history,  \* rows of self.portfolio_history written so far
    trades,             \* self.trades
    pc,                 \* "new": constructed; "loop": inside run_backtest; "done": returned;
                        \* "raised": run_backtest ended with an exception
    results,            \* summary statistics of the returned dict
    resultKeys,         \* the keys of the returned dict
    main,               \* main(): the loop over the tickers
    metrics,            \* performance_metrics: the inputs of the calculators and what was computed
    fetch               \* fetch_historical_data: the paging loop

vars == <<initial_capital, commission_rate, columns, data, portfolio_history,
          trades, pc, results, resultKeys, main, metrics, fetch>>

----------------------------------------------------------------------------
(* float arithmetic *)

Abs(x) == IF x < 0 THEN -x ELSE x

Sgn(x) == IF x < 0 THEN -1 ELSE IF x > 0 THEN 1 ELSE 0

RECURSIVE GCD(_, _)
GCD(a, b) == IF b = 0 THEN a ELSE GCD(b, a % b)

Norm(n, d) ==
    IF d = 0 THEN [n |-> Sgn(n), d |-> 0]
    ELSE LET g == GCD(Abs(n), Abs(d))
             s == IF d < 0 THEN -1 ELSE 1
         IN  [n |-> s * (n \div g), d |-> s * (d \div g)]

Num(k) == [n |-> k, d |-> 1]

Frac(n, d) == Norm(n, d)

Zero == Num(0)

One == Num(1)

NaN == [n |-> 0, d |-> 0]

PosInf == [n |-> 1, d |-> 0]

IsNaN(a) == a.n = 0 /\ a.d = 0

IsFinite(a) == a.d > 0

Neg(a) == [n |-> -a.n, d |-> a.d]

Mul(a, b) ==
    IF a.d = 0 \/ b.d = 0 THEN Norm(Sgn(a.n) * Sgn(b.n), 0)
    ELSE LET g1 == GCD(Abs(a.n), b.d)
             g2 == GCD(Abs(b.n), a.d)
         IN  Norm((a.n \div g1) * (b.n \div g2), (a.d \div g2) * (b.d \div g1))

Recip(b) == IF b.n < 0 THEN [n |-> -b.d, d |-> -b.n] ELSE [n |-> b.d, d |-> b.n]

Div(a, b) == Mul(a, Recip(b))

Add(a, b) ==
    IF IsNaN(a) \/ IsNaN(b) THEN NaN
    ELSE IF a.d = 0 /\ b.d = 0 THEN (IF a.n = b.n THEN a ELSE NaN)
    ELSE IF a.d = 0 THEN a
    ELSE IF b.d = 0 THEN b
    ELSE LET g == GCD(a.d, b.d)
         IN  Norm(a.n * (b.d \div g) + b.n * (a.d \div g), (a.d \div g) * b.d)

Sub(a, b) == Add(a, Neg(b))

\* sign of an/ad - bn/bd for ad, bd > 0, by continued fractions (no products)
RECURSIVE CmpFin(_, _, _, _)
CmpFin(an, ad, bn, bd) ==
    LET qa == an \div ad
        qb == bn \div bd
        ra == an % ad
        rb == bn % bd
    IN  IF qa < qb THEN -1
        ELSE IF qa > qb THEN 1
        ELSE IF ra = 0 /\ rb = 0 THEN 0
        ELSE IF ra = 0 THEN -1
        ELSE IF rb = 0 THEN 1
        ELSE CmpFin(bd, rb, ad, ra)

\* sign of a - b for a, b other than NaN
Cmp(a, b) ==
    IF a.d = 0 \/ b.d = 0
    THEN Sgn((IF a.d = 0 THEN a.n ELSE 0) - (IF b.d = 0 THEN b.n ELSE 0))
    ELSE CmpFin(a.n, a.d, b.n, b.d)

Eq(a, b) == ~IsNaN(a) /\ ~IsNaN(b) /\ Cmp(a, b) = 0

Lt(a, b) == ~IsNaN(a) /\ ~IsNaN(b) /\ Cmp(a, b) < 0

Gt(a, b) == Lt(b, a)

Ge(a, b) == ~IsNaN(a) /\ ~IsNaN(b) /\ Cmp(a, b) >= 0

Le(a, b) == Ge(b, a)

----------------------------------------------------------------------------
(* inputs *)

\* most bars a data feed has
MaxBars == 4

\* final_signal: 1 buy, -1 sell, 0 hold
Signals == {-1, 0, 1}

\* close prices of the bars of a feed
Closes == {Num(0), Num(100), Num(110), Num(121)}

\* closes of the round-trip feeds
RoundTripCloses == {Num(100), Num(120)}

\* initial_capital of a run: 1000, or 1e-7 (buys less than 1e-8 units at a close of 100 or more)
Capitals == {Num(1000), Frac(1, 10000000)}

\* commission_rate of a run
Rates == {Zero, Frac(1, 10)}

\* configurations outside the contract initialCapital > 0, 0 <= commissionRate < 1
AnyCapitals == {Num(1000), Zero, Num(-1000)}

AnyRates == {Zero, Frac(1, 10), One, Num(-1)}

ValidConfig == Gt(initial_capital, Zero) /\ Ge(commission_rate, Zero) /\ Lt(commission_rate, One)

\* columns of the frame MovingAverageCrossoverStrategy.generate_signals returns
MAColumns == {"close", "short_ma", "long_ma", "final_signal"}

\* columns of the frame MeanReversionStrategy.generate_signals returns
MRColumns == {"close", "middle_band", "std_dev", "upper_band", "lower_band", "final_signal"}

\* columns the loop of run_backtest reads from data_with_signals
LoopColumns == {"close", "final_signal", "short_ma", "long_ma"}

----------------------------------------------------------------------------
(* BacktestingEngine *)

min_units_threshold == Frac(1, 100000000)

FirstRowZero(capital) ==
    [cash |-> Zero, units_held |-> Zero, holdings_value |-> Zero, total_value |-> Zero]

\* the first portfolio row: cash and total_value set to the initial capital
FirstRow(capital) ==
    [cash |-> capital, units_held |-> Zero, holdings_value |-> Zero, total_value |-> capital]

\* the row of prev_timestamp = index[i - 1]
PrevRowFirst(history, ts) == history[1]

PrevRow(history, ts) == history[ts - 1]

BuyGuard(signal, prev_units) == signal = 1 /\ Eq(prev_units, Zero)

SellGuardAnyPosition(signal, prev_units) == signal = -1

SellGuard(signal, prev_units) == signal = -1 /\ Gt(prev_units, Zero)

UnitsToBuy(available_cash, trade_price, rate) ==
    Div(available_cash, Mul(trade_price, Add(One, rate)))

MeetsThresholdPositive(units_to_buy) == Gt(units_to_buy, Zero)

MeetsThreshold(units_to_buy) == Ge(units_to_buy, min_units_threshold)

CommissionFree(notional, rate) == Zero

Commission(notional, rate) == Mul(notional, rate)

HoldingsValueUnits(units_held, trade_price) == units_held

HoldingsValue(units_held, trade_price) == Mul(units_held, trade_price)

TotalValue(cash, holdings_value) == Add(cash, holdings_value)

IsBuy(tr) == tr.Type = "BUY"

IsSell(tr) == tr.Type = "SELL"

\* self.trades[self.trades['Type'] == 'BUY'].iloc[-1:] : positions of the BUY rows
BuyRows(log) == {k \in 1..Len(log) : IsBuy(log[k])}

LastBuyRow(log) == CHOOSE k \in BuyRows(log) : \A j \in BuyRows(log) : j <= k

TradePnLNoBuyCommission(units_to_sell, trade_price, commission, log) ==
    IF BuyRows(log) = {} THEN Zero
    ELSE LET last_buy == log[LastBuyRow(log)]
         IN  Sub(Sub(Mul(units_to_sell, trade_price), commission),
                 Mul(last_buy.Units, last_buy.Price))

\* trade_pnl of a SELL: net proceeds minus the total cost of the last BUY
TradePnL(units_to_sell, trade_price, commission, log) ==
    IF BuyRows(log) = {} THEN Zero
    ELSE LET last_buy == log[LastBuyRow(log)]
         IN  Sub(Sub(Mul(units_to_sell, trade_price), commission),
                 Add(Mul(last_buy.Units, last_buy.Price), last_buy.Commission))

Trade(ts, type, price, units, commission, pnl) ==
    [Timestamp |-> ts, Type |-> type, Price |-> price, Units |-> units,
     Commission |-> commission, PnL |-> pnl]

\* one iteration of the loop: the row written for bar ts and the trade log after it
BuyStep(prev, log, ts, trade_price, rate) ==
    LET available_cash == prev.cash
        units_to_buy == UnitsToBuy(available_cash, trade_price, rate)
        cost_of_units == Mul(units_to_buy, trade_price)
        commission == Commission(cost_of_units, rate)
        total_cost == Add(cost_of_units, commission)
        cash == Sub(available_cash, total_cost)
        units_held == Add(prev.units_held, units_to_buy)
        holdings_value == HoldingsValue(units_held, trade_price)
    IN  IF MeetsThreshold(units_to_buy)
        THEN [row |-> [cash |-> cash, units_held |-> units_held,
                       holdings_value |-> holdings_value,
                       total_value |-> TotalValue(cash, holdings_value)],
              log |-> Append(log, Trade(ts, "BUY", trade_price, units_to_buy, commission, Zero))]
        ELSE [row |-> [cash |-> prev.cash, units_held |-> prev.units_held,
                       holdings_value |-> HoldingsValue(prev.units_held, trade_price),
                       total_value |-> TotalValue(prev.cash, HoldingsValue(prev.units_held, trade_price))],
              log |-> log]

SellStep(prev, log, ts, trade_price, rate) ==
    LET units_to_sell == prev.units_held
        gross_proceeds == Mul(units_to_sell, trade_price)
        commission == Commission(gross_proceeds, rate)
        net_proceeds == Sub(gross_proceeds, commission)
        trade_pnl == TradePnL(units_to_sell, trade_price, commission, log)
        cash == Add(prev.cash, net_proceeds)
    IN  [row |-> [cash |-> cash, units_held |-> Zero, holdings_value |-> Zero,
                  total_value |-> TotalValue(cash, Zero)],
         log |-> Append(log, Trade(ts, "SELL", trade_price, units_to_sell, commission, trade_pnl))]

HoldStepNoCarry(prev, log, trade_price) ==
    [row |-> [cash |-> prev.cash, units_held |-> Zero,
              holdings_value |-> HoldingsValue(Zero, trade_price),
              total_value |-> TotalValue(prev.cash, HoldingsValue(Zero, trade_price))],
     log |-> log]

\* a bar on which neither branch trades: cash and units_held carried forward,
\* the position re-marked at the close
HoldStep(prev, log, trade_price) ==
    [row |-> [cash |-> prev.cash, units_held |-> prev.units_held,
              holdings_value |-> HoldingsValue(prev.units_held, trade_price),
              total_value |-> TotalValue(prev.cash, HoldingsValue(prev.units_held, trade_price))],
     log |-> log]

BarStep(prev, log, ts, trade_price, signal, rate) ==
    IF BuyGuard(signal, prev.units_held) THEN BuyStep(prev, log, ts, trade_price, rate)
    ELSE IF SellGuard(signal, prev.units_held) THEN SellStep(prev, log, ts, trade_price, rate)
    ELSE HoldStep(prev, log, trade_price)

----------------------------------------------------------------------------
(* the returned dict *)

\* keys of the dict returned for an empty data feed
EmptyResultKeys ==
    {"initial_capital", "final_capital", "total_pnl", "total_returns_percent",
     "num_trades", "winning_trades", "losing_trades", "win_rate_percent",
     "avg_pnl_per_trade", "portfolio_history", "trades", "sharpe_ratio",
     "sortino_ratio", "profit_factor", "expectancy", "up_market_capture",
     "down_market_capture", "drawdown_series", "max_drawdown_percent"}

\* keys of the dict returned after the loop
RunResultKeys ==
    {"initial_capital", "final_capital", "total_pnl", "total_returns_percent",
     "num_trades", "total_completed_trades", "winning_trades", "losing_trades",
     "win_rate_percent", "avg_pnl_per_trade", "portfolio_history", "trades",
     "drawdown_series", "max_drawdown_percent", "sharpe_ratio", "sortino_ratio",
     "profit_factor", "expectancy", "up_market_capture", "down_market_capture"}

\* pd.to_numeric(self.trades['PnL'], errors='coerce').fillna(0)
FillPnL(log) ==
    [k \in 1..Len(log) |-> IF IsNaN(log[k].PnL) THEN [log[k] EXCEPT !.PnL = Zero] ELSE log[k]]

SellRowsAnyType(log) == 1..Len(log)

\* the rows of the completed trades
SellRows(log) == {k \in 1..Len(log) : IsSell(log[k])}

RECURSIVE SumPnL(_, _)
SumPnL(log, k) ==
    IF k = 0 THEN Zero
    ELSE IF IsSell(log[k]) THEN Add(SumPnL(log, k - 1), log[k].PnL)
    ELSE SumPnL(log, k - 1)

AvgPnLPerTradeAllRows(log) ==
    LET filled == FillPnL(log)
    IN  IF Len(filled) > 0
        THEN Div(SumPnL(filled, Len(filled)), Num(Len(filled))) ELSE Zero

\* avg_pnl_per_trade: the sum of the SELL rows' PnL over their number
AvgPnLPerTrade(log) ==
    LET filled == FillPnL(log)
        completed == Cardinality(SellRows(filled))
    IN  IF completed > 0 THEN Div(SumPnL(filled, Len(filled)), Num(completed)) ELSE Zero

\* the statistics run_backtest computes itself after the loop
Summary(capital, history, log) ==
    LET final_capital == history[Len(history)].total_value
        total_pnl == Sub(final_capital, capital)
        filled == FillPnL(log)
        winning == Cardinality({k \in SellRows(filled) : Gt(filled[k].PnL, Zero)})
        losing == Cardinality({k \in SellRows(filled) : Lt(filled[k].PnL, Zero)})
        completed == Cardinality(SellRows(filled))
    IN  [initial_capital |-> capital,
         final_capital |-> final_capital,
         total_pnl |-> total_pnl,
         total_returns_percent |->
             IF Gt(capital, Zero) THEN Mul(Div(total_pnl, capital), Num(100)) ELSE Zero,
         num_trades |-> Cardinality(BuyRows(log)),
         total_completed_trades |-> completed,
         winning_trades |-> winning,
         losing_trades |-> losing,
         win_rate_percent |->
             IF completed > 0 THEN Mul(Frac(winning, completed), Num(100)) ELSE Zero,
         avg_pnl_per_trade |-> AvgPnLPerTrade(log)]

\* the values the empty-feed branch returns
EmptySummary(capital) ==
    [initial_capital |-> capital,
     final_capital |-> capital,
     total_pnl |-> Zero,
     total_returns_percent |-> Zero,
     num_trades |-> 0,
     winning_trades |-> 0,
     losing_trades |-> 0,
     win_rate_percent |-> Zero,
     avg_pnl_per_trade |-> Zero]

----------------------------------------------------------------------------
(* operations *)

\* main() is not running
MainIdle == [pc |-> "idle"]

\* fetch_historical_data is not running
FetchIdle == [pc |-> "idle"]

\* no metric is being calculated
MetricsIdle == [pc |-> "idle"]

\* BacktestingEngine(data_feed, strategy, initial_capital, commission_rate)
Constructed(capital, rate) ==
    /\ initial_capital = capital
    /\ commission_rate = rate
    /\ columns = MAColumns
    /\ data = <<>>
    /\ portfolio_history = <<>>
    /\ trades = <<>>
    /\ pc = "new"
    /\ results = <<>>
    /\ resultKeys = {}
    /\ fetch = FetchIdle
    /\ main = MainIdle
    /\ metrics = MetricsIdle

Init == \E capital \in Capitals, rate \in Rates : Constructed(capital, rate)

\* run_backtest on an empty data feed: prints an error and returns the default dict
EmptyFeed ==
    /\ pc = "new"
    /\ pc' = "done"
    /\ results' = EmptySummary(initial_capital)
    /\ resultKeys' = EmptyResultKeys
    /\ UNCHANGED <<initial_capital, commission_rate, columns, data, portfolio_history, trades>>
    /\ UNCHANGED <<main, metrics, fetch>>

\* run_backtest on a feed whose first bar is (close, signal): the first row
InitPortfolio(close, signal) ==
    /\ pc = "new"
    /\ pc' = "loop"
    /\ data' = <<[close |-> close, final_signal |-> signal]>>
    /\ portfolio_history' = <<FirstRow(initial_capital)>>
    /\ UNCHANGED <<initial_capital, commission_rate, columns, trades, results, resultKeys>>
    /\ UNCHANGED <<main, metrics, fetch>>

\* the loop iteration for the next bar (close, signal)
ProcessBar(close, signal) ==
    /\ pc = "loop"
    /\ Len(data) < MaxBars
    /\ LoopColumns \subseteq columns
    /\ LET ts == Len(data) + 1
           step == BarStep(PrevRow(portfolio_history, ts), trades, ts, close, signal, commission_rate)
       IN  /\ data' = Append(data, [close |-> close, final_signal |-> signal])
           /\ portfolio_history' = Append(portfolio_history, step.row)
           /\ trades' = step.log
    /\ UNCHANGED <<initial_capital, commission_rate, columns, pc, results, resultKeys>>
    /\ UNCHANGED <<main, metrics, fetch>>

\* the loop iteration for the next bar when data_with_signals lacks a column the
\* loop reads: cash and units_held of the row are carried forward, then
\* data_with_signals['short_ma'] raises KeyError out of run_backtest
ProcessBarKeyError(close, signal) ==
    /\ pc = "loop"
    /\ Len(data) < MaxBars
    /\ ~(LoopColumns \subseteq columns)
    /\ LET prev == PrevRow(portfolio_history, Len(data) + 1)
       IN  portfolio_history' =
               Append(portfolio_history,
                      [cash |-> prev.cash, units_held |-> prev.units_held,
                       holdings_value |-> Zero, total_value |-> Zero])
    /\ data' = Append(data, [close |-> close, final_signal |-> signal])
    /\ pc' = "raised"
    /\ UNCHANGED <<initial_capital, commission_rate, columns, trades, results, resultKeys>>
    /\ UNCHANGED <<main, metrics, fetch>>

\* the feed is exhausted: summary statistics and return
Summarize ==
    /\ pc = "loop"
    /\ pc' = "done"
    /\ trades' = FillPnL(trades)
    /\ results' = Summary(initial_capital, portfolio_history, trades)
    /\ resultKeys' = RunResultKeys
    /\ UNCHANGED <<initial_capital, commission_rate, columns, data, portfolio_history>>
    /\ UNCHANGED <<main, metrics, fetch>>

Next ==
    \/ EmptyFeed
    \/ \E close \in Closes, signal \in Signals : InitPortfolio(close, signal)
    \/ \E close \in Closes, signal \in Signals : ProcessBar(close, signal)
    \/ Summarize

Spec == Init /\ [][Next]_vars

\* feeds of the round trip at 100 and 120 with capital 1000 and commission 0.01
InitRoundTrip == Constructed(Num(1000), Frac(1, 100))

NextRoundTrip ==
    \/ EmptyFeed
    \/ \E close \in RoundTripCloses, signal \in Signals : InitPortfolio(close, signal)
    \/ \E close \in RoundTripCloses, signal \in Signals : ProcessBar(close, signal)
    \/ Summarize

SpecRoundTrip == InitRoundTrip /\ [][NextRoundTrip]_vars

\* any configuration, inside the contract or not
InitAnyConfig == \E capital \in AnyCapitals, rate \in AnyRates : Constructed(capital, rate)

SpecAnyConfig == InitAnyConfig /\ [][Next]_vars

\* any of the two strategies of main() as the signal source
InitAnySource ==
    \E capital \in Capitals, rate \in Rates, cols \in {MAColumns, MRColumns} :
        /\ initial_capital = capital
        /\ commission_rate = rate
        /\ columns = cols
        /\ data = <<>>
        /\ portfolio_history = <<>>
        /\ trades = <<>>
        /\ pc = "new"
        /\ results = <<>>
        /\ resultKeys = {}
        /\ fetch = FetchIdle
        /\ main = MainIdle
        /\ metrics = MetricsIdle

NextAnySource ==
    \/ EmptyFeed
    \/ \E close \in Closes, signal \in Signals : InitPortfolio(close, signal)
    \/ \E close \in Closes, signal \in Signals : ProcessBar(close, signal)
    \/ \E close \in Closes, signal \in Signals : ProcessBarKeyError(close, signal)
    \/ Summarize

SpecAnySource == InitAnySource /\ [][NextAnySource]_vars

----------------------------------------------------------------------------
(* properties *)

Rows == 1..Len(portfolio_history)

\* the bars the loop processed: every row but the first
LoopRows == 2..Len(portfolio_history)

TradesAt(t) == {k \in 1..Len(trades) : trades[k].Timestamp = t}

Carried(t) ==
    /\ Eq(portfolio_history[t].cash, portfolio_history[t - 1].cash)
    /\ Eq(portfolio_history[t].units_held, portfolio_history[t - 1].units_held)

RowFinite(t) ==
    /\ IsFinite(portfolio_history[t].cash)
    /\ IsFinite(portfolio_history[t].units_held)
    /\ IsFinite(portfolio_history[t].holdings_value)
    /\ IsFinite(portfolio_history[t].total_value)

\* |a - b| <= tol
Within(a, b, tol) == Le(Sub(a, b), tol) /\ Le(Sub(b, a), tol)

\* C1: on every row, total_value == cash + units_held * close
C1_Conservation ==
    \A t \in Rows :
        Eq(portfolio_history[t].total_value,
           Add(portfolio_history[t].cash, Mul(portfolio_history[t].units_held, data[t].close)))

\* C2: a BUY is executed at bar t only if units_held at bar t-1 is 0, two BUYs
\* always have a SELL between them, and units_held never grows while a position is open
C2_NoPyramiding ==
    /\ \A k \in BuyRows(trades) :
           /\ trades[k].Timestamp \in LoopRows
           /\ Eq(portfolio_history[trades[k].Timestamp - 1].units_held, Zero)
    /\ \A j, k \in BuyRows(trades) : j < k => \E m \in SellRows(trades) : j < m /\ m < k
    /\ \A t \in LoopRows :
           Gt(portfolio_history[t - 1].units_held, Zero)
               => Le(portfolio_history[t].units_held, portfolio_history[t - 1].units_held)

\* C2 witness: a Buy signal arrived while a position was open
C2_Witness ==
    /\ Len(trades) >= 1
    /\ \E t \in LoopRows :
           data[t].final_signal = 1 /\ Gt(portfolio_history[t - 1].units_held, Zero)

\* C3: after every bar #SELL <= #BUY <= #SELL + 1, the counts are equal exactly
\* when flat, and the log alternates BUY, SELL, BUY, ... starting with BUY
C3_TradePairing ==
    LET buys == Cardinality(BuyRows(trades))
        sells == Cardinality(SellRows(trades))
    IN  /\ sells <= buys
        /\ buys <= sells + 1
        /\ Len(portfolio_history) > 0
               => (buys = sells <=> Eq(portfolio_history[Len(portfolio_history)].units_held, Zero))
        /\ \A k \in 1..Len(trades) : trades[k].Type = IF k % 2 = 1 THEN "BUY" ELSE "SELL"

\* C3 witness: a log BUY, SELL, BUY with the position open
C3_Witness ==
    /\ Len(trades) = 3
    /\ Gt(portfolio_history[Len(portfolio_history)].units_held, Zero)

\* C4: a SELL's PnL is (units*price - commission) - (B.units*B.price + B.commission)
\* for the most recent BUY B before it, its units are B's, and a BUY's PnL is 0
C4_PnLIdentity ==
    \A k \in 1..Len(trades) :
        IF IsBuy(trades[k]) THEN Eq(trades[k].PnL, Zero)
        ELSE /\ BuyRows(SubSeq(trades, 1, k - 1)) # {}
             /\ LET S == trades[k]
                    B == trades[LastBuyRow(SubSeq(trades, 1, k - 1))]
                IN  /\ Eq(S.Units, B.Units)
                    /\ Eq(S.PnL, Sub(Sub(Mul(S.Units, S.Price), S.Commission),
                                     Add(Mul(B.Units, B.Price), B.Commission)))

\* the flat buy-and-hold scenario: closes 100, 110, 121, signals Buy, Hold, Hold
FlatBuyAndHoldBars ==
    <<[close |-> Num(100), final_signal |-> 1],
      [close |-> Num(110), final_signal |-> 0],
      [close |-> Num(121), final_signal |-> 0]>>

FlatBuyAndHoldRun ==
    /\ initial_capital = Num(1000)
    /\ commission_rate = Zero
    /\ data = FlatBuyAndHoldBars

\* the same three bars after one leading bar
FlatBuyAndHoldShifted ==
    /\ initial_capital = Num(1000)
    /\ commission_rate = Zero
    /\ Len(data) = 4
    /\ SubSeq(data, 2, 4) = FlatBuyAndHoldBars

\* C5 as stated: the scenario holds 10 units after the first bar, is worth 1210
\* at the third bar and logs exactly one BUY
C5_FlatBuyAndHold_Original ==
    FlatBuyAndHoldRun =>
        /\ Eq(portfolio_history[1].units_held, Num(10))
        /\ Eq(portfolio_history[3].total_value, Num(1210))
        /\ Len(trades) = 1
        /\ IsBuy(trades[1])

\* C5 amended: the signal of the first bar is never acted on, so the scenario
\* stays flat (units_held 0 on every row, total_value 1000 at the third bar, no
\* trade); the same bars after one leading bar hold 10 units from the Buy bar on,
\* are worth 1210 at the last bar and log exactly one BUY
C5_FlatBuyAndHold ==
    /\ FlatBuyAndHoldRun =>
           /\ \A t \in Rows : Eq(portfolio_history[t].units_held, Zero)
           /\ Eq(portfolio_history[3].total_value, Num(1000))
           /\ trades = <<>>
    /\ FlatBuyAndHoldShifted =>
           /\ \A t \in 2..4 : Eq(portfolio_history[t].units_held, Num(10))
           /\ Eq(portfolio_history[4].total_value, Num(1210))
           /\ Len(trades) = 1
           /\ IsBuy(trades[1])

\* C5 witnesses: the scenario has run to its end, as stated and shifted
C5_Witness == FlatBuyAndHoldRun /\ pc = "done"

C5_WitnessShifted == FlatBuyAndHoldShifted /\ pc = "done"

\* the first two trades are a Buy at 100 and a Sell at 120
RoundTrip ==
    /\ initial_capital = Num(1000)
    /\ commission_rate = Frac(1, 100)
    /\ Len(trades) >= 2
    /\ trades[1].Price = Num(100)
    /\ trades[2].Price = Num(120)

\* C6 as stated: about 9.901 units and a Sell PnL of about 79.0
C6_RoundTrip_Original ==
    RoundTrip =>
        /\ Within(trades[1].Units, Frac(9901, 1000), Frac(1, 2000))
        /\ Within(trades[2].PnL, Num(79), Frac(1, 20))

\* C6 amended: about 9.901 units (1000/101) and a Sell PnL of about 176.24
\* (17800/101 = 1176.24 - 1000.00)
C6_RoundTrip ==
    RoundTrip =>
        /\ Within(trades[1].Units, Frac(9901, 1000), Frac(1, 2000))
        /\ Eq(trades[1].Units, Frac(1000, 101))
        /\ Within(trades[2].PnL, Frac(17624, 100), Frac(1, 200))
        /\ Eq(trades[2].PnL, Frac(17800, 101))

C6_Witness == RoundTrip /\ IsBuy(trades[1]) /\ IsSell(trades[2])

\* units the Buy of bar t would buy
WouldBuy(t) ==
    Div(portfolio_history[t - 1].cash, Mul(data[t].close, Add(One, commission_rate)))

\* C7: a Buy signal while flat whose units fall below min_units_threshold (in
\* particular cash < threshold * close, or cash == 0) appends no trade and
\* leaves cash and units_held as in the previous row
C7_DustGuard ==
    \A t \in LoopRows :
        (/\ data[t].final_signal = 1
         /\ Eq(portfolio_history[t - 1].units_held, Zero)
         /\ \/ Lt(WouldBuy(t), min_units_threshold)
            \/ Lt(portfolio_history[t - 1].cash, Mul(min_units_threshold, data[t].close))
            \/ Eq(portfolio_history[t - 1].cash, Zero))
        => (TradesAt(t) = {} /\ Carried(t))

\* C7 witness: a Buy signal while flat with positive cash that buys too few units
C7_Witness ==
    \E t \in LoopRows :
        /\ data[t].final_signal = 1
        /\ Eq(portfolio_history[t - 1].units_held, Zero)
        /\ Gt(portfolio_history[t - 1].cash, Zero)
        /\ Lt(WouldBuy(t), min_units_threshold)

\* C8: with initial_capital <= 0 or commission_rate outside [0,1) the run is
\* refused: no portfolio row, no trade, no normal return
C8_FailFastOnInvalidConfig ==
    ~ValidConfig => (Len(portfolio_history) = 0 /\ Len(trades) = 0 /\ pc # "done")

\* C9: an empty feed never ends in a normal return, and every returned dict
\* has the keys of a non-empty run
C9_EmptyFeedIsError ==
    /\ Len(data) = 0 => pc # "done"
    /\ pc = "done" => resultKeys = RunResultKeys

\* C10: a bar whose close is 0, or a Buy with cash 0, is skipped (no trade, cash
\* and units_held carried forward) and no inf or NaN enters the portfolio
C10_ZeroPriceSkipped ==
    /\ \A t \in LoopRows :
           (\/ Eq(data[t].close, Zero)
            \/ (data[t].final_signal = 1 /\ Eq(portfolio_history[t - 1].cash, Zero)))
           => (TradesAt(t) = {} /\ Carried(t))
    /\ \A t \in Rows : RowFinite(t)

\* C11: with any signal source that provides close and final_signal, run_backtest
\* processes every bar and returns: it never ends with an exception
C11_AnySignalSource ==
    {"close", "final_signal"} \subseteq columns => pc # "raised"

\* a bar on which the claim C12 expects no trade: Hold, Buy while long, Sell while flat
NoTradeBar(t) ==
    \/ data[t].final_signal = 0
    \/ data[t].final_signal = 1 /\ Gt(portfolio_history[t - 1].units_held, Zero)
    \/ data[t].final_signal = -1 /\ Eq(portfolio_history[t - 1].units_held, Zero)

\* C12: on every bar whose signal is Hold, or Buy while units_held > 0, or Sell
\* while units_held == 0, the row keeps the previous row's cash and units_held
\* (the stored values themselves, whatever they are), no trade is logged for the
\* bar, and holdings_value and total_value are the position marked at the close
C12_NoStateChangeWithoutTrade ==
    \A t \in LoopRows :
        NoTradeBar(t) =>
            /\ portfolio_history[t].cash = portfolio_history[t - 1].cash
            /\ portfolio_history[t].units_held = portfolio_history[t - 1].units_held
            /\ TradesAt(t) = {}
            /\ portfolio_history[t].holdings_value =
                   Mul(portfolio_history[t].units_held, data[t].close)
            /\ portfolio_history[t].total_value =
                   Add(portfolio_history[t].cash, portfolio_history[t].holdings_value)

\* a Hold bar while long at a close different from the previous one, a Buy
\* signal while long and a Sell signal while flat have all been processed
C12_Witness ==
    /\ \E t \in LoopRows :
           /\ data[t].final_signal = 0
           /\ Gt(portfolio_history[t - 1].units_held, Zero)
           /\ data[t].close # data[t - 1].close
           /\ portfolio_history[t].holdings_value # portfolio_history[t - 1].holdings_value
    /\ \E t \in LoopRows :
           data[t].final_signal = -1 /\ Eq(portfolio_history[t - 1].units_held, Zero)

\* C13: for every executed Buy, at close p with pre-trade cash C:
\* Units == C / (p * (1 + commission_rate)), Commission == Units * p * commission_rate,
\* units_held of the row == Units, cash of the row == C - (Units * p + Commission),
\* Units * p + Commission == C, cash of the row == 0 and total_value == C - Commission
C13_BuyCommitsAllCash ==
    \A k \in BuyRows(trades) :
        LET t          == trades[k].Timestamp
            C          == portfolio_history[t - 1].cash
            p          == data[t].close
            units      == Div(C, Mul(p, Add(One, commission_rate)))
            commission == Mul(Mul(units, p), commission_rate)
            total_cost == Add(Mul(units, p), commission)
        IN  /\ Eq(trades[k].Units, units)
            /\ Eq(trades[k].Commission, commission)
            /\ Eq(portfolio_history[t].units_held, units)
            /\ Eq(portfolio_history[t].cash, Sub(C, total_cost))
            /\ Eq(total_cost, C)
            /\ Eq(portfolio_history[t].cash, Zero)
            /\ Eq(portfolio_history[t].total_value, Sub(C, commission))

\* C14: for every executed Sell, at close p with U units held before the bar:
\* Commission == U * p * commission_rate, cash of the row == previous cash +
\* (U * p - Commission), units_held and holdings_value of the row == 0, and the
\* SELL, with Units == U, is the one trade logged for the bar
C14_SellClosesPosition ==
    \A k \in SellRows(trades) :
        LET t          == trades[k].Timestamp
            U          == portfolio_history[t - 1].units_held
            p          == data[t].close
            gross      == Mul(U, p)
            commission == Mul(gross, commission_rate)
        IN  /\ Eq(trades[k].Commission, commission)
            /\ Eq(portfolio_history[t].cash,
                  Add(portfolio_history[t - 1].cash, Sub(gross, commission)))
            /\ Eq(portfolio_history[t].units_held, Zero)
            /\ Eq(portfolio_history[t].holdings_value, Zero)
            /\ TradesAt(t) = {k}
            /\ Eq(trades[k].Units, U)

\* the log without its last row
ClosedLog(log) == SubSeq(log, 1, Len(log) - 1)

\* C15: when run_backtest has returned with units_held > 0 in the last row, the
\* log ends with the BUY that opened the position (no SELL was appended for it),
\* final_capital == cash + units_held * last close, and the win and loss counts,
\* the number of completed trades and the average realized PnL are those of the
\* log without that BUY
C15_NoForcedClose ==
    (pc = "done" /\ Len(portfolio_history) >= 1
       /\ Gt(portfolio_history[Len(portfolio_history)].units_held, Zero)) =>
        LET last   == portfolio_history[Len(portfolio_history)]
            closed == Summary(initial_capital, portfolio_history, ClosedLog(trades))
        IN  /\ Len(trades) >= 1
            /\ IsBuy(trades[Len(trades)])
            /\ Cardinality(SellRows(trades)) = Cardinality(BuyRows(trades)) - 1
            /\ Eq(results.final_capital,
                  Add(last.cash, Mul(last.units_held, data[Len(data)].close)))
            /\ results.winning_trades = closed.winning_trades
            /\ results.losing_trades = closed.losing_trades
            /\ results.total_completed_trades = closed.total_completed_trades
            /\ results.avg_pnl_per_trade = closed.avg_pnl_per_trade

\* C16: the first portfolio row has cash == initial_capital, units_held == 0,
\* holdings_value == 0 and total_value == initial_capital and no trade is logged
\* for the first bar, whatever its signal; from the second bar on the signal is
\* acted on: a Buy while flat whose units reach the threshold logs a BUY for the
\* bar, a Sell while long logs a SELL for the bar
C16_Initialization ==
    Len(portfolio_history) >= 1 =>
        /\ Eq(portfolio_history[1].cash, initial_capital)
        /\ Eq(portfolio_history[1].units_held, Zero)
        /\ Eq(portfolio_history[1].holdings_value, Zero)
        /\ Eq(portfolio_history[1].total_value, initial_capital)
        /\ TradesAt(1) = {}
        /\ \A t \in LoopRows :
               /\ (/\ data[t].final_signal = 1
                   /\ Eq(portfolio_history[t - 1].units_held, Zero)
                   /\ Ge(WouldBuy(t), min_units_threshold))
                  => \E k \in TradesAt(t) : IsBuy(trades[k])
               /\ (/\ data[t].final_signal = -1
                   /\ Gt(portfolio_history[t - 1].units_held, Zero))
                  => \E k \in TradesAt(t) : IsSell(trades[k])

\* a Buy signal on the first bar was ignored and the Buy signal of the second
\* bar was executed
C16_Witness ==
    /\ Len(portfolio_history) >= 2
    /\ data[1].final_signal = 1
    /\ data[2].final_signal = 1
    /\ TradesAt(1) = {}
    /\ \E k \in TradesAt(2) : IsBuy(trades[k])

-----------------------------------------------------------------------------
(* main(): the loop over the tickers of the configuration *)

\* the largest number of tickers in the configuration
MaxTickers == 3

\* config['active_strategy'], not empty when the loop is reached
StrategyNames == {"Moving_Average_Crossover", "Mean_Reversion", "Unknown"}

\* what fetch_historical_data does for a ticker: it raises (ValueError for an
\* unsupported timeframe, KeyError when no candle was collected) or it returns a
\* frame with no row, one row or several rows
Fetched == {"ValueError", "KeyError", "empty", "one_bar", "bars"}

\* the exception classes raised inside the try block; all derive from Exception
Exceptions == {"ValueError", "KeyError"}

\* the columns of the frame the selected strategy hands to the engine
StrategyColumns(strategy) ==
    IF strategy = "Moving_Average_Crossover" THEN MAColumns ELSE MRColumns

\* the keys main() reads right after run_backtest returns
UnpackedKeys == {"portfolio_history", "trades", "strategy_execution_data"}

\* the body of the try block for one ticker: the stage it ends in and the
\* exception it ends with ("none": the end of the block, or the continue)
TickerOutcome(strategy, fetched) ==
    IF fetched \in Exceptions THEN [stage |-> "fetch", exc |-> fetched]
    ELSE IF fetched = "empty" THEN [stage |-> "skipped", exc |-> "none"]
    ELSE IF strategy \notin {"Moving_Average_Crossover", "Mean_Reversion"}
        THEN [stage |-> "strategy", exc |-> "ValueError"]
    ELSE IF fetched = "bars" /\ ~(LoopColumns \subseteq StrategyColumns(strategy))
        THEN [stage |-> "backtest", exc |-> "KeyError"]
    ELSE IF ~(UnpackedKeys \subseteq RunResultKeys)
        THEN [stage |-> "unpack", exc |-> "KeyError"]
    ELSE [stage |-> "reported", exc |-> "none"]

CaughtValueErrorOnly(exc) == exc = "ValueError"

\* except ValueError ... except Exception ...
Caught(exc) == exc = "ValueError" \/ exc \in Exceptions

InitMain ==
    \E n \in 1..MaxTickers, strategy \in StrategyNames :
        /\ initial_capital = Num(1000)
        /\ commission_rate = Zero
        /\ columns = StrategyColumns(strategy)
        /\ data = <<>>
        /\ portfolio_history = <<>>
        /\ trades = <<>>
        /\ pc = "new"
        /\ results = <<>>
        /\ resultKeys = {}
        /\ fetch = FetchIdle
        /\ metrics = MetricsIdle
        /\ main = [pc |-> "loop", strategy |-> strategy, tickers |-> n, i |-> 1,
                   attempted |-> <<>>, outcomes |-> <<>>]

\* one iteration of the loop: the ticker is announced, the try block runs, and
\* an exception is either handled (print, next ticker) or leaves main()
RunTicker(fetched) ==
    /\ main.pc = "loop"
    /\ main.i <= main.tickers
    /\ LET outcome == TickerOutcome(main.strategy, fetched)
       IN  main' = [main EXCEPT
                       !.attempted = Append(@, main.i),
                       !.outcomes = Append(@, outcome),
                       !.i = @ + 1,
                       !.pc = IF outcome.exc = "none" \/ Caught(outcome.exc)
                              THEN "loop" ELSE "aborted"]
    /\ UNCHANGED <<initial_capital, commission_rate, columns, data, portfolio_history,
                   trades, pc, results, resultKeys, metrics, fetch>>

\* the loop is exhausted: print("Backtesting process finished.")
Finish ==
    /\ main.pc = "loop"
    /\ main.i > main.tickers
    /\ main' = [main EXCEPT !.pc = "finished"]
    /\ UNCHANGED <<initial_capital, commission_rate, columns, data, portfolio_history,
                   trades, pc, results, resultKeys, metrics, fetch>>

NextMain ==
    \/ \E fetched \in Fetched : RunTicker(fetched)
    \/ Finish

\* main() is a sequential program: the loop keeps taking its next step
SpecMain == InitMain /\ [][NextMain]_vars /\ WF_vars(NextMain)

-----------------------------------------------------------------------------
(* performance_metrics: the calculators applied to a total_value series *)

\* the largest number of rows of a portfolio history handed to a calculator
MaxRows == 3

\* total_value of a row: cash + holdings_value, never negative
TotalValues == {Num(0), Num(500), Num(1000), Num(2000)}

\* the total_value columns of the portfolio histories, the empty one included
Histories == UNION {[1..n -> TotalValues] : n \in 0..MaxRows}

\* Series.max() and Series.min(): the undefined entries are skipped, and the
\* result is undefined when nothing is left
SeriesMax(values) ==
    LET defined == {x \in values : ~IsNaN(x)}
    IN  IF defined = {} THEN NaN
        ELSE CHOOSE m \in defined : \A x \in defined : Le(x, m)

SeriesMin(values) ==
    LET defined == {x \in values : ~IsNaN(x)}
    IN  IF defined = {} THEN NaN
        ELSE CHOOSE m \in defined : \A x \in defined : Le(m, x)

ExpandingMaxWhole(series, t) == SeriesMax({series[j] : j \in 1..Len(series)})

\* series.expanding(min_periods=1).max() at row t
ExpandingMax(series, t) == SeriesMax({series[j] : j \in 1..t})

\* calculate_drawdowns(portfolio_history)
Drawdown(total_value) ==
    [t \in 1..Len(total_value) |->
        Div(Sub(total_value[t], ExpandingMax(total_value, t)), ExpandingMax(total_value, t))]

MaxDrawdownPercent(total_value) ==
    IF total_value = <<>> THEN Zero
    ELSE Mul(SeriesMin({Drawdown(total_value)[t] : t \in 1..Len(total_value)}), Num(100))

\* portfolio_history['total_value'].pct_change().fillna(0)
DailyReturns(total_value) ==
    [t \in 1..Len(total_value) |->
        IF t = 1 THEN Zero
        ELSE LET change == Sub(Div(total_value[t], total_value[t - 1]), One)
             IN  IF IsNaN(change) THEN Zero ELSE change]

RECURSIVE SeriesSum(_, _)
\* the sum of the first k entries
SeriesSum(series, k) ==
    IF k = 0 THEN Zero ELSE Add(SeriesSum(series, k - 1), series[k])

\* Series.mean()
SeriesMean(series) == Div(SeriesSum(series, Len(series)), Num(Len(series)))

\* the square of Series.std(): the sample variance (ddof = 1), undefined for
\* fewer than two entries
SeriesVar(series) ==
    IF Len(series) <= 1 THEN NaN
    ELSE LET mean == SeriesMean(series)
             squares == [t \in 1..Len(series) |->
                            Mul(Sub(series[t], mean), Sub(series[t], mean))]
         IN  Div(SeriesSum(squares, Len(series)), Num(Len(series) - 1))

\* the default arguments of calculate_sharpe_ratio
risk_free_rate == Zero

annualization_factor == 365

\* a ratio (mean / std) * sqrt(factor) is kept as its sign and its square,
\* mean^2 / variance * factor; this is the returned 0.0
ZeroRatio == [sign |-> 0, square |-> Zero]

\* calculate_sharpe_ratio(portfolio_history)
SharpeRatio(daily_returns) ==
    IF daily_returns = <<>> THEN ZeroRatio
    ELSE IF Eq(SeriesVar(daily_returns), Zero) THEN ZeroRatio
    ELSE LET excess == Sub(SeriesMean(daily_returns),
                           Div(risk_free_rate, Num(annualization_factor)))
             square == Mul(Div(Mul(excess, excess), SeriesVar(daily_returns)),
                           Num(annualization_factor))
         IN  [sign |-> IF IsNaN(square) THEN 0 ELSE Sgn(excess.n), square |-> square]

\* a portfolio history with its daily_returns column, before any calculator ran
InitMetrics ==
    \E total_value \in Histories :
        /\ initial_capital = Num(1000)
        /\ commission_rate = Zero
        /\ columns = MAColumns
        /\ data = <<>>
        /\ portfolio_history = <<>>
        /\ trades = <<>>
        /\ pc = "new"
        /\ results = <<>>
        /\ resultKeys = {}
        /\ fetch = FetchIdle
        /\ main = MainIdle
        /\ metrics = [pc |-> "returns",
                      total_value |-> total_value,
                      daily_returns |-> DailyReturns(total_value)]

\* drawdown_series, max_drawdown_percent = calculate_drawdowns(portfolio_history)
CalculateDrawdowns ==
    /\ metrics.pc = "returns"
    /\ metrics' = [pc |-> "drawdowns",
                   total_value |-> metrics.total_value,
                   daily_returns |-> metrics.daily_returns,
                   drawdown_series |-> Drawdown(metrics.total_value),
                   max_drawdown_percent |-> MaxDrawdownPercent(metrics.total_value)]
    /\ UNCHANGED <<initial_capital, commission_rate, columns, data, portfolio_history,
                   trades, pc, results, resultKeys, main, fetch>>

\* sharpe_ratio = calculate_sharpe_ratio(portfolio_history)
CalculateSharpeRatio ==
    /\ metrics.pc = "drawdowns"
    /\ metrics' = [pc |-> "sharpe",
                   total_value |-> metrics.total_value,
                   daily_returns |-> metrics.daily_returns,
                   drawdown_series |-> metrics.drawdown_series,
                   max_drawdown_percent |-> metrics.max_drawdown_percent,
                   sharpe_ratio |-> SharpeRatio(metrics.daily_returns)]
    /\ UNCHANGED <<initial_capital, commission_rate, columns, data, portfolio_history,
                   trades, pc, results, resultKeys, main, fetch>>

\* daily_returns[daily_returns < 0]
DownsideReturns(daily_returns) == SelectSeq(daily_returns, LAMBDA x : Lt(x, Zero))

\* calculate_sortino_ratio(portfolio_history)
SortinoRatio(daily_returns) ==
    IF daily_returns = <<>> THEN ZeroRatio
    ELSE IF DownsideReturns(daily_returns) = <<>> THEN ZeroRatio
    ELSE IF Eq(SeriesVar(DownsideReturns(daily_returns)), Zero) THEN ZeroRatio
    ELSE LET excess == Sub(SeriesMean(daily_returns),
                           Div(risk_free_rate, Num(annualization_factor)))
             square == Mul(Div(Mul(excess, excess), SeriesVar(DownsideReturns(daily_returns))),
                           Num(annualization_factor))
         IN  [sign |-> IF IsNaN(square) THEN 0 ELSE Sgn(excess.n), square |-> square]

\* sortino_ratio = calculate_sortino_ratio(portfolio_history)
CalculateSortinoRatio ==
    /\ metrics.pc = "sharpe"
    /\ metrics' = [pc |-> "sortino",
                   total_value |-> metrics.total_value,
                   daily_returns |-> metrics.daily_returns,
                   drawdown_series |-> metrics.drawdown_series,
                   max_drawdown_percent |-> metrics.max_drawdown_percent,
                   sharpe_ratio |-> metrics.sharpe_ratio,
                   sortino_ratio |-> SortinoRatio(metrics.daily_returns)]
    /\ UNCHANGED <<initial_capital, commission_rate, columns, data, portfolio_history,
                   trades, pc, results, resultKeys, main, fetch>>

NextMetrics ==
    \/ CalculateDrawdowns
    \/ CalculateSharpeRatio
    \/ CalculateSortinoRatio

SpecMetrics == InitMetrics /\ [][NextMetrics]_vars

\* C19: for a history whose first total_value is positive, every drawdown[t] ==
\* (total_value[t] - peak) / peak with peak the largest of total_value[0..t],
\* drawdown[t] <= 0, drawdown[0] == 0, and max_drawdown_percent == 100 * the
\* least drawdown; for the empty history the series is empty and the maximum 0.0
C19_DrawdownBound ==
    metrics.pc \in {"drawdowns", "sharpe"} =>
        LET total_value == metrics.total_value
            drawdown    == metrics.drawdown_series
        IN  /\ total_value = <<>> =>
                   drawdown = <<>> /\ Eq(metrics.max_drawdown_percent, Zero)
            /\ (total_value # <<>> /\ Gt(total_value[1], Zero)) =>
                   /\ Len(drawdown) = Len(total_value)
                   /\ \A t \in 1..Len(total_value) :
                          /\ \E p \in 1..t :
                                 /\ \A j \in 1..t : Le(total_value[j], total_value[p])
                                 /\ Eq(drawdown[t],
                                       Div(Sub(total_value[t], total_value[p]), total_value[p]))
                          /\ Le(drawdown[t], Zero)
                   /\ Eq(drawdown[1], Zero)
                   /\ \E m \in 1..Len(drawdown) :
                          /\ \A j \in 1..Len(drawdown) : Le(drawdown[m], drawdown[j])
                          /\ Eq(metrics.max_drawdown_percent, Mul(drawdown[m], Num(100)))

\* drawdowns were calculated for the empty history
C19_WitnessEmpty == metrics.pc = "drawdowns" /\ metrics.total_value = <<>>

\* drawdowns were calculated for a history that rises to a new peak and then
\* falls below it
C19_Witness ==
    /\ metrics.pc = "drawdowns"
    /\ Len(metrics.total_value) = 3
    /\ Gt(metrics.total_value[1], Zero)
    /\ Gt(metrics.total_value[2], metrics.total_value[1])
    /\ Lt(metrics.total_value[3], metrics.total_value[2])
    /\ Lt(metrics.max_drawdown_percent, Zero)

\* C20: calculate_sharpe_ratio returns exactly 0.0 when the return series has
\* fewer than 2 points or all its points are equal (zero standard deviation)
C20_DegenerateSharpe ==
    metrics.pc = "sharpe" =>
        LET daily_returns == metrics.daily_returns
        IN  (\/ Len(daily_returns) < 2
             \/ \A i, j \in 1..Len(daily_returns) : Eq(daily_returns[i], daily_returns[j]))
            => (metrics.sharpe_ratio.sign = 0 /\ Eq(metrics.sharpe_ratio.square, Zero))

\* C21: calculate_sortino_ratio returns exactly 0.0 when no return is < 0, when
\* exactly one return is < 0, or when all the returns < 0 are equal
C21_DegenerateSortino ==
    metrics.pc = "sortino" =>
        LET downside == {t \in 1..Len(metrics.daily_returns) :
                            Lt(metrics.daily_returns[t], Zero)}
        IN  (\/ Cardinality(downside) <= 1
             \/ \A i, j \in downside :
                    Eq(metrics.daily_returns[i], metrics.daily_returns[j]))
            => (metrics.sortino_ratio.sign = 0 /\ Eq(metrics.sortino_ratio.square, Zero))

-----------------------------------------------------------------------------
(* performance_metrics: the calculators applied to a trade log *)

\* the largest number of SELL rows of a trade log handed to a calculator
MaxSells == 3

\* realized PnL of a SELL row: a loss, break-even, a win
PnLs == {Num(-100), Num(0), Num(100), Num(200)}

\* the log of the round trips with the given PnL, each a BUY row (PnL 0.0)
\* followed by its SELL row, and a last BUY row when a position is left open
TradeLog(pnls, open) ==
    [k \in 1..(2 * Len(pnls) + (IF open THEN 1 ELSE 0)) |->
        IF k % 2 = 1
        THEN Trade(k + 1, "BUY", Num(100), One, Zero, Zero)
        ELSE Trade(k + 1, "SELL", Num(100), One, Zero, pnls[k \div 2])]

TradeLogs ==
    {TradeLog(pnls, open) :
        pnls \in UNION {[1..n -> PnLs] : n \in 0..MaxSells}, open \in BOOLEAN}

\* trades['PnL']
PnLColumn(log) == [k \in 1..Len(log) |-> log[k].PnL]

\* series[series > 0] and series[series < 0]
Positive(series) == SelectSeq(series, LAMBDA x : Gt(x, Zero))

Negative(series) == SelectSeq(series, LAMBDA x : Lt(x, Zero))

\* Series.abs()
AbsSeries(series) == [k \in 1..Len(series) |-> IF Lt(series[k], Zero) THEN Neg(series[k]) ELSE series[k]]

\* calculate_profit_factor(trades)
ProfitFactor(log) ==
    IF log = <<>> THEN Zero
    ELSE LET gross_profits == SeriesSum(Positive(PnLColumn(log)), Len(Positive(PnLColumn(log))))
             losses        == AbsSeries(Negative(PnLColumn(log)))
             gross_losses  == SeriesSum(losses, Len(losses))
         IN  IF Eq(gross_losses, Zero)
             THEN (IF Gt(gross_profits, Zero) THEN One ELSE Zero)
             ELSE Div(gross_profits, gross_losses)

CompletedPnLNonZero(log) ==
    PnLColumn(SelectSeq(log, LAMBDA trade : IsSell(trade) /\ ~Eq(trade.PnL, Zero)))

\* trades[trades['Type'] == 'SELL']['PnL']
CompletedPnL(log) == PnLColumn(SelectSeq(log, IsSell))

\* calculate_expectancy(trades)
Expectancy(log) ==
    IF log = <<>> THEN Zero
    ELSE IF CompletedPnL(log) = <<>> THEN Zero
    ELSE LET winning_trades_pnl     == Positive(CompletedPnL(log))
             losing_trades_pnl      == Negative(CompletedPnL(log))
             total_completed_trades == Len(CompletedPnL(log))
             win_rate  == IF total_completed_trades > 0
                          THEN Frac(Len(winning_trades_pnl), total_completed_trades) ELSE Zero
             loss_rate == IF total_completed_trades > 0
                          THEN Frac(Len(losing_trades_pnl), total_completed_trades) ELSE Zero
             avg_win   == IF Len(winning_trades_pnl) > 0
                          THEN SeriesMean(winning_trades_pnl) ELSE Zero
             avg_loss  == IF Len(losing_trades_pnl) > 0
                          THEN SeriesMean(losing_trades_pnl) ELSE Zero
         IN  Add(Mul(win_rate, avg_win), Mul(loss_rate, avg_loss))

\* a trade log after the summary statistics of run_backtest, before any
\* calculator ran
InitTradeMetrics ==
    \E log \in TradeLogs :
        /\ initial_capital = Num(1000)
        /\ commission_rate = Zero
        /\ columns = MAColumns
        /\ data = <<>>
        /\ portfolio_history = <<>>
        /\ trades = log
        /\ pc = "new"
        /\ results = <<>>
        /\ resultKeys = {}
        /\ fetch = FetchIdle
        /\ main = MainIdle
        /\ metrics = [pc |-> "trades", avg_pnl_per_trade |-> AvgPnLPerTrade(log)]

\* profit_factor = calculate_profit_factor(self.trades)
CalculateProfitFactor ==
    /\ metrics.pc = "trades"
    /\ metrics' = [pc |-> "profit_factor",
                   avg_pnl_per_trade |-> metrics.avg_pnl_per_trade,
                   profit_factor |-> ProfitFactor(trades)]
    /\ UNCHANGED <<initial_capital, commission_rate, columns, data, portfolio_history,
                   trades, pc, results, resultKeys, main, fetch>>

\* expectancy = calculate_expectancy(self.trades)
CalculateExpectancy ==
    /\ metrics.pc = "profit_factor"
    /\ metrics' = [pc |-> "expectancy",
                   avg_pnl_per_trade |-> metrics.avg_pnl_per_trade,
                   profit_factor |-> metrics.profit_factor,
                   expectancy |-> Expectancy(trades)]
    /\ UNCHANGED <<initial_capital, commission_rate, columns, data, portfolio_history,
                   trades, pc, results, resultKeys, main, fetch>>

NextTradeMetrics ==
    \/ CalculateProfitFactor
    \/ CalculateExpectancy

SpecTradeMetrics == InitTradeMetrics /\ [][NextTradeMetrics]_vars

\* the sum of the PnL of the SELL rows among the first k rows whose PnL has the
\* given sign
RECURSIVE SellPnLOfSign(_, _, _)
SellPnLOfSign(log, k, sign) ==
    IF k = 0 THEN Zero
    ELSE IF IsSell(log[k]) /\ Sgn(log[k].PnL.n) = sign
         THEN Add(SellPnLOfSign(log, k - 1, sign), log[k].PnL)
         ELSE SellPnLOfSign(log, k - 1, sign)

\* the SELL rows whose PnL has the given sign
SellRowsOfSign(log, sign) == {k \in SellRows(log) : Sgn(log[k].PnL.n) = sign}

\* C22: with gross profit P (sum of the positive SELL PnL) and gross loss L
\* (absolute sum of the negative SELL PnL), profit_factor == P / L when L is not
\* 0; when L is 0 it is 0 if P is 0 and otherwise not a finite number
C22_ProfitFactor ==
    metrics.pc \in {"profit_factor", "expectancy"} =>
        LET P == SellPnLOfSign(trades, Len(trades), 1)
            L == Neg(SellPnLOfSign(trades, Len(trades), -1))
        IN  /\ ~Eq(L, Zero) => Eq(metrics.profit_factor, Div(P, L))
            /\ (Eq(L, Zero) /\ Eq(P, Zero)) => Eq(metrics.profit_factor, Zero)
            /\ (Eq(L, Zero) /\ ~Eq(P, Zero)) => ~IsFinite(metrics.profit_factor)

\* C23: with N the number of SELL rows, W and L the numbers of SELL rows with
\* PnL > 0 and PnL < 0, expectancy == (W / N) * (sum of the positive SELL PnL / W)
\* + (L / N) * (sum of the negative SELL PnL / L), a term being 0 when its count
\* is 0; BUY rows and break-even SELL rows enter only through N; with no SELL
\* row the expectancy is 0.0
C23_Expectancy ==
    metrics.pc = "expectancy" =>
        LET N == Cardinality(SellRows(trades))
            W == Cardinality(SellRowsOfSign(trades, 1))
            L == Cardinality(SellRowsOfSign(trades, -1))
            avgWin  == IF W > 0
                       THEN Div(SellPnLOfSign(trades, Len(trades), 1), Num(W)) ELSE Zero
            avgLoss == IF L > 0
                       THEN Div(SellPnLOfSign(trades, Len(trades), -1), Num(L)) ELSE Zero
        IN  /\ N = 0 => Eq(metrics.expectancy, Zero)
            /\ N > 0 =>
                   /\ Le(avgLoss, Zero)
                   /\ Eq(metrics.expectancy,
                         Add(Mul(Frac(W, N), avgWin), Mul(Frac(L, N), avgLoss)))

\* the expectancy of a log with a winning, a losing and a break-even SELL row
\* and an open BUY row
C23_Witness ==
    /\ metrics.pc = "expectancy"
    /\ SellRowsOfSign(trades, 1) # {}
    /\ SellRowsOfSign(trades, -1) # {}
    /\ SellRowsOfSign(trades, 0) # {}
    /\ IsBuy(trades[Len(trades)])

\* C29: for every trade log the expectancy equals avg_pnl_per_trade, the sum of
\* the SELL rows' PnL over their number (both 0 with no SELL row)
C29_ExpectancyIsAvgPnL ==
    metrics.pc = "expectancy" => Eq(metrics.expectancy, metrics.avg_pnl_per_trade)

\* the two values for a log with break-even, winning and losing SELL rows
\* whose average is not 0
C29_Witness ==
    /\ metrics.pc = "expectancy"
    /\ Cardinality(SellRows(trades)) = 3
    /\ SellRowsOfSign(trades, 0) # {}
    /\ SellRowsOfSign(trades, 1) # {}
    /\ SellRowsOfSign(trades, -1) # {}
    /\ ~Eq(metrics.avg_pnl_per_trade, Zero)

-----------------------------------------------------------------------------
(* performance_metrics: the capture ratios of two return series *)

\* the largest number of days of the two return series
MaxDays == 2

\* 1 + r in float64 is exactly 1.0 for every |r| < 2^-53.  Returns that small
\* are written here as fractions of magnitude below AbsorbedBelow, and no
\* return is drawn between 2^-53 and AbsorbedBelow
AbsorbedBelow == Frac(1, 1000000000)

\* a return of magnitude below 2^-53, such as 1e-20
TinyReturn == Frac(1, 2000000000)

\* daily returns of the strategy
StrategyReturns == {Frac(-1, 2), Zero, Frac(1, 2)}

\* daily returns of the benchmark
BenchmarkReturns == {Frac(-1, 2), Neg(TinyReturn), Zero, TinyReturn, Frac(1, 2)}

\* the days of the common index: a strategy return and a benchmark return each
ReturnPairs ==
    UNION {[1..n -> [strat : StrategyReturns, bench : BenchmarkReturns]] : n \in 0..MaxDays}

\* 1 + r
OnePlus(r) ==
    IF IsFinite(r) /\ Lt(r, AbsorbedBelow) /\ Lt(Neg(AbsorbedBelow), r) THEN One
    ELSE Add(One, r)

RECURSIVE GrowthProduct(_, _)
\* (1 + series).prod() over the first k entries
GrowthProduct(series, k) ==
    IF k = 0 THEN One ELSE Mul(GrowthProduct(series, k - 1), OnePlus(series[k]))

\* (1 + series).prod() - 1
CompoundedReturn(series) == Sub(GrowthProduct(series, Len(series)), One)

\* strat_returns[mask] and bench_returns[mask] for the up-market and the
\* down-market days
StratOn(days, up) ==
    LET chosen == SelectSeq(days, LAMBDA day :
                      IF up THEN Gt(day.bench, Zero) ELSE Lt(day.bench, Zero))
    IN  [k \in 1..Len(chosen) |-> chosen[k].strat]

BenchOn(days, up) ==
    LET chosen == SelectSeq(days, LAMBDA day :
                      IF up THEN Gt(day.bench, Zero) ELSE Lt(day.bench, Zero))
    IN  [k \in 1..Len(chosen) |-> chosen[k].bench]

\* up_market_capture of calculate_capture_ratios
UpMarketCapture(days) ==
    IF days = <<>> \/ BenchOn(days, TRUE) = <<>> THEN Zero
    ELSE LET strat_cum_up_return == CompoundedReturn(StratOn(days, TRUE))
             bench_cum_up_return == CompoundedReturn(BenchOn(days, TRUE))
         IN  IF ~Eq(bench_cum_up_return, Zero)
             THEN Mul(Div(strat_cum_up_return, bench_cum_up_return), Num(100))
             ELSE IF ~Eq(strat_cum_up_return, Zero) THEN PosInf
             ELSE Zero

\* down_market_capture of calculate_capture_ratios
DownMarketCapture(days) ==
    IF days = <<>> \/ BenchOn(days, FALSE) = <<>> THEN Zero
    ELSE LET strat_cum_down_return == CompoundedReturn(StratOn(days, FALSE))
             bench_cum_down_return == CompoundedReturn(BenchOn(days, FALSE))
         IN  IF ~Eq(bench_cum_down_return, Zero)
             THEN Mul(Div(strat_cum_down_return, bench_cum_down_return), Num(100))
             ELSE IF ~Eq(strat_cum_down_return, Zero)
                  THEN (IF Lt(strat_cum_down_return, Zero) THEN Neg(PosInf) ELSE PosInf)
             ELSE Zero

\* the two return series, aligned, before the capture ratios are calculated
InitCapture ==
    \E days \in ReturnPairs :
        /\ initial_capital = Num(1000)
        /\ commission_rate = Zero
        /\ columns = MAColumns
        /\ data = <<>>
        /\ portfolio_history = <<>>
        /\ trades = <<>>
        /\ pc = "new"
        /\ results = <<>>
        /\ resultKeys = {}
        /\ fetch = FetchIdle
        /\ main = MainIdle
        /\ metrics = [pc |-> "returns", days |-> days]

\* up_market_capture, down_market_capture = calculate_capture_ratios(...)
CalculateCaptureRatios ==
    /\ metrics.pc = "returns"
    /\ metrics' = [pc |-> "capture",
                   days |-> metrics.days,
                   up_market_capture |-> UpMarketCapture(metrics.days),
                   down_market_capture |-> DownMarketCapture(metrics.days)]
    /\ UNCHANGED <<initial_capital, commission_rate, columns, data, portfolio_history,
                   trades, pc, results, resultKeys, main, fetch>>

NextCapture == CalculateCaptureRatios

SpecCapture == InitCapture /\ [][NextCapture]_vars

\* what the claim C24 gives for a subset with compounded strategy return S and
\* compounded benchmark return B
CaptureAsClaimed(ratio, S, B) ==
    /\ ~Eq(B, Zero) => Eq(ratio, Mul(Div(S, B), Num(100)))
    /\ (Eq(B, Zero) /\ Eq(S, Zero)) => Eq(ratio, Zero)
    /\ (Eq(B, Zero) /\ Gt(S, Zero)) => ratio = PosInf
    /\ (Eq(B, Zero) /\ Lt(S, Zero)) => ratio = Neg(PosInf)

\* C24: for the up days and for the down days alike, when there is such a day:
\* with a benchmark compounded return of exactly 0 the capture ratio is 0 if the
\* strategy's compounded return is 0 too, and otherwise an infinity with the
\* sign of the strategy's compounded return; with a non-zero benchmark
\* compounded return it is strategy / benchmark * 100
C24_CaptureZeroDenominator ==
    metrics.pc = "capture" =>
        /\ BenchOn(metrics.days, TRUE) # <<>> =>
               CaptureAsClaimed(metrics.up_market_capture,
                                CompoundedReturn(StratOn(metrics.days, TRUE)),
                                CompoundedReturn(BenchOn(metrics.days, TRUE)))
        /\ BenchOn(metrics.days, FALSE) # <<>> =>
               CaptureAsClaimed(metrics.down_market_capture,
                                CompoundedReturn(StratOn(metrics.days, FALSE)),
                                CompoundedReturn(BenchOn(metrics.days, FALSE)))

C26_ReportingAfterRun ==
    \A j \in 1..Len(main.outcomes) :
        main.outcomes[j].stage \in {"unpack", "reported"} =>
            (main.outcomes[j].stage = "reported" /\ main.outcomes[j].exc = "none")

-----------------------------------------------------------------------------
(* DeltaExchangeDataHandler.fetch_historical_data: the paging loop *)

\* the largest number of requests followed, and of candles in one response
MaxPages == 3

MaxCandles == 2

\* start_timestamp and end_timestamp of the requested range, in seconds
StartTime == 1

EndTime == 4

\* 2000 * _resolution_to_seconds(resolution): the span of one request
PageSpan == 2

\* the candle times the API can answer with, some outside the requested range
Times == 0..(EndTime + 1)

\* what requests.get gives for one request: a RequestException, a body that is
\* not a dict with a 'result' list, or a list of candles (their times)
Responses ==
    {[kind |-> kind, times |-> <<>>] : kind \in {"RequestException", "malformed"}}
        \cup {[kind |-> "candles", times |-> times] :
                 times \in UNION {[1..n -> Times] : n \in 0..MaxCandles}}

RECURSIVE SortedTimes(_)
\* sorted(..., key=timestamp) and sort_values(by='timestamp')
SortedTimes(times) ==
    IF times = <<>> THEN <<>>
    ELSE LET least == CHOOSE k \in 1..Len(times) :
                          \A j \in 1..Len(times) : times[k] <= times[j]
         IN  <<times[least]>> \o
             SortedTimes([j \in 1..(Len(times) - 1) |->
                             IF j < least THEN times[j] ELSE times[j + 1]])

\* request_start_time of the request that ends at current_end_time
RequestStart(current_end_time) ==
    IF StartTime >= current_end_time - PageSpan THEN StartTime
    ELSE current_end_time - PageSpan

InitPaging ==
    /\ initial_capital = Num(1000)
    /\ commission_rate = Zero
    /\ columns = MAColumns
    /\ data = <<>>
    /\ portfolio_history = <<>>
    /\ trades = <<>>
    /\ pc = "new"
    /\ results = <<>>
    /\ resultKeys = {}
    /\ main = MainIdle
    /\ metrics = MetricsIdle
    /\ fetch = [pc |-> "paging", current_end_time |-> EndTime, all_candles |-> <<>>,
                requests |-> <<>>, frame |-> <<>>]

\* one iteration of the while loop, for the response the API gives; requests
\* records each request made and the candles it was answered with
FetchPage(response) ==
    /\ fetch.pc = "paging"
    /\ fetch.current_end_time > StartTime
    /\ Len(fetch.requests) < MaxPages
    /\ LET request == [start |-> RequestStart(fetch.current_end_time),
                       end |-> fetch.current_end_time]
           candles == IF response.kind = "candles" THEN SortedTimes(response.times)
                      ELSE <<>>
       IN  fetch' =
               IF candles = <<>>
               THEN [fetch EXCEPT !.pc = "exit",
                                  !.requests = Append(@, request @@ [candles |-> <<>>])]
               ELSE [fetch EXCEPT !.all_candles = @ \o candles,
                                  !.current_end_time = candles[1] - 1,
                                  !.requests = Append(@, request @@ [candles |-> candles])]
    /\ UNCHANGED <<initial_capital, commission_rate, columns, data, portfolio_history,
                   trades, pc, results, resultKeys, main, metrics>>

\* the loop condition is false
LoopExit ==
    /\ fetch.pc = "paging"
    /\ ~(fetch.current_end_time > StartTime)
    /\ fetch' = [fetch EXCEPT !.pc = "exit"]
    /\ UNCHANGED <<initial_capital, commission_rate, columns, data, portfolio_history,
                   trades, pc, results, resultKeys, main, metrics>>

\* after the loop: the frame of all candles sorted by timestamp; with no candle
\* the frame has no 'timestamp' column and sort_values raises KeyError
BuildFrame ==
    /\ fetch.pc = "exit"
    /\ fetch' = IF fetch.all_candles = <<>>
                THEN [fetch EXCEPT !.pc = "raised"]
                ELSE [fetch EXCEPT !.pc = "returned", !.frame = SortedTimes(fetch.all_candles)]
    /\ UNCHANGED <<initial_capital, commission_rate, columns, data, portfolio_history,
                   trades, pc, results, resultKeys, main, metrics>>

NextPaging ==
    \/ \E response \in Responses : FetchPage(response)
    \/ LoopExit
    \/ BuildFrame

\* the loop is sequential code: it keeps taking its next step
SpecPaging == InitPaging /\ [][NextPaging]_vars /\ WF_vars(NextPaging)

\* an iteration of the loop breaks or strictly decreases current_end_time
PagingStepDecreases ==
    (fetch.pc = "paging" /\ fetch'.pc = "paging" /\ fetch' # fetch)
        => fetch'.current_end_time < fetch.current_end_time

\* every response so far had all its candles inside its request's window
ResponsesInWindow ==
    \A k \in 1..Len(fetch.requests) :
        \A j \in 1..Len(fetch.requests[k].candles) :
            /\ fetch.requests[k].start <= fetch.requests[k].candles[j]
            /\ fetch.requests[k].candles[j] <= fetch.requests[k].end

\* the returned frame is ascending by timestamp with no duplicate timestamp
FrameStrictlyAscending ==
    \A j \in 1..(Len(fetch.frame) - 1) : fetch.frame[j] < fetch.frame[j + 1]

\* C27: every iteration of the paging loop breaks or strictly decreases
\* current_end_time, whatever the API answers; and a frame returned after
\* responses that all lay inside their request windows is ascending by
\* timestamp with no duplicate timestamp
C27_PagingTerminates ==
    /\ [][PagingStepDecreases]_vars
    /\ []((fetch.pc = "returned" /\ ResponsesInWindow) => FrameStrictlyAscending)

\* the sum of the PnL of the SELL rows among the first k rows of the log that
\* were executed at bar t or before
RECURSIVE RealizedUpTo(_, _, _)
RealizedUpTo(log, k, t) ==
    IF k = 0 THEN Zero
    ELSE IF log[k].Type = "SELL" /\ log[k].Timestamp <= t
         THEN Add(RealizedUpTo(log, k - 1, t), log[k].PnL)
         ELSE RealizedUpTo(log, k - 1, t)

\* every bar so far has a positive close
PositivePrices == \A t \in 1..Len(data) : Gt(data[t].close, Zero)

\* C28: in a run with positive closes, at every row with units_held == 0 cash ==
\* initial_capital + the sum of the PnL of the SELL trades executed so far; and
\* when the run has returned flat, total_pnl == the sum of the PnL of all SELL
\* trades
C28_RealizedPnLAccounts ==
    PositivePrices =>
        /\ \A t \in Rows :
               Eq(portfolio_history[t].units_held, Zero) =>
                   Eq(portfolio_history[t].cash,
                      Add(initial_capital, RealizedUpTo(trades, Len(trades), t)))
        /\ (pc = "done" /\ Len(portfolio_history) >= 1
              /\ Eq(portfolio_history[Len(portfolio_history)].units_held, Zero)) =>
               Eq(results.total_pnl, RealizedUpTo(trades, Len(trades), Len(data)))

\* a run with positive closes and a commission that returned flat after a
\* round trip with a non-zero PnL
C28_Witness ==
    /\ PositivePrices
    /\ pc = "done"
    /\ Gt(commission_rate, Zero)
    /\ Len(portfolio_history) >= 1
    /\ Eq(portfolio_history[Len(portfolio_history)].units_held, Zero)
    /\ \E k \in SellRows(trades) : ~Eq(trades[k].PnL, Zero)
    /\ ~Eq(results.total_pnl, Zero)

-----------------------------------------------------------------------------
(* BacktestingEngine: run_backtest called again on the same instance *)

\* the second call starts: the portfolio columns are assigned anew and the
\* first row set to the initial capital; self.trades, created by __init__, is
\* left as the first call returned it
RerunInitPortfolio ==
    /\ pc = "done"
    /\ Len(data) >= 1
    /\ pc' = "rerun"
    /\ portfolio_history' = <<FirstRow(initial_capital)>>
    /\ UNCHANGED <<initial_capital, commission_rate, columns, data, trades, results,
                   resultKeys>>
    /\ UNCHANGED <<main, metrics, fetch>>

\* the loop iteration of the second call for the next bar of the same feed
RerunProcessBar ==
    /\ pc = "rerun"
    /\ Len(portfolio_history) < Len(data)
    /\ LoopColumns \subseteq columns
    /\ LET ts == Len(portfolio_history) + 1
           step == BarStep(PrevRow(portfolio_history, ts), trades, ts,
                           data[ts].close, data[ts].final_signal, commission_rate)
       IN  /\ portfolio_history' = Append(portfolio_history, step.row)
           /\ trades' = step.log
    /\ UNCHANGED <<initial_capital, commission_rate, columns, data, pc, results, resultKeys>>
    /\ UNCHANGED <<main, metrics, fetch>>

\* the second call returns; first_call keeps the statistics the first call
\* returned
RerunSummarize ==
    /\ pc = "rerun"
    /\ Len(portfolio_history) = Len(data)
    /\ pc' = "done again"
    /\ trades' = FillPnL(trades)
    /\ results' = Summary(initial_capital, portfolio_history, trades) @@ [first_call |-> results]
    /\ resultKeys' = RunResultKeys
    /\ UNCHANGED <<initial_capital, commission_rate, columns, data, portfolio_history>>
    /\ UNCHANGED <<main, metrics, fetch>>

NextRerun ==
    \/ NextRoundTrip
    \/ RerunInitPortfolio
    \/ RerunProcessBar
    \/ RerunSummarize

SpecRerun == Init /\ [][NextRerun]_vars

\* C30: the second call on the same engine returns the summary counts of the
\* first call, and its trade log holds only the trades of one call: as many
\* rows as the BUY and SELL trades the first call returned
C30_RerunIdempotent ==
    pc = "done again" =>
        /\ results.num_trades = results.first_call.num_trades
        /\ results.total_completed_trades = results.first_call.total_completed_trades
        /\ results.winning_trades = results.first_call.winning_trades
        /\ results.losing_trades = results.first_call.losing_trades
        /\ Len(trades) = results.first_call.num_trades
                             + results.first_call.total_completed_trades

====
